---- MODULE Spec2Model ----
(***************************************************************************)
(* Model of the notes service in src/index.js: an in-memory, ordered       *)
(* collection of notes and the five /api/notes handlers that read or       *)
(* rewrite it.  Every handler is synchronous, so one handler is one step.  *)
(*                                                                         *)
(* JavaScript values that come from JSON bodies are represented by their   *)
(* JSON text ("true", "null", "\"test\"", ...); an absent key is the text  *)
(* "undefined".  Note ids and timestamps are integers.                     *)
(***************************************************************************)
EXTENDS Integers, Sequences, FiniteSets, TLC

VARIABLES
  notes,   \* the collection (let notes, line 47)
  now,     \* the last timestamp read from the clock
  req,     \* the request handled last: method, :id path segment, JSON body
  res,     \* the response sent to it: status and JSON body
  before,  \* the collection as it was when that request arrived
  served   \* number of requests handled so far

vars == <<notes, now, req, res, before, served>>

\* Number of requests the service handles in a run.
MaxRequests == 4

-----------------------------------------------------------------------------
(* JavaScript values                                                       *)

Undefined == "undefined"
JsFalse == "false"
JsTrue == "true"
JsYes == "\"yes\""
JsTest == "\"test\""
JsEmpty == "\"\""

\* Faulty variant: only an absent key counts as missing.
TruthyUndefinedOnly(v) == v # Undefined

\* ToBoolean: the falsy values among those a JSON body can carry.
Truthy(v) == v \notin {Undefined, "null", JsFalse, "0", JsEmpty}

\* a || b
Or(a, b) == IF Truthy(a) THEN a ELSE b

Digits == <<"0", "1", "2", "3", "4", "5", "6", "7", "8", "9">>

IsDigit(c) == \E d \in DOMAIN Digits : Digits[d] = c

DigitVal(c) == (CHOOSE d \in DOMAIN Digits : Digits[d] = c) - 1

RECURSIVE DecimalValue(_)
DecimalValue(s) ==
  IF s = <<>> THEN 0
  ELSE 10 * DecimalValue(SubSeq(s, 1, Len(s) - 1)) + DigitVal(s[Len(s)])

NaN == [nan |-> TRUE, n |-> 0]

\* Number(req.params.id) on a path segment given as a sequence of characters:
\* a run of decimal digits is its value, anything else is NaN.
Number(s) ==
  IF \A i \in DOMAIN s : IsDigit(s[i])
  THEN [nan |-> FALSE, n |-> DecimalValue(s)]
  ELSE NaN

\* noteId === id, where noteId is a stored (integer) id and id a Number(...)
\* result; NaN is equal to nothing.
StrictEq(noteId, id) == ~id.nan /\ id.n = noteId

-----------------------------------------------------------------------------
(* Inputs                                                                  *)

\* Path segments :id -- four ids, one of them also written with a leading
\* zero, and one segment that is not a number.
Params == {<<"1">>, <<"2">>, <<"3">>, <<"4">>, <<"0", "1">>, <<"a">>}

\* JSON bodies; express.json() leaves {} when the request carries none.
EmptyBody == [content |-> Undefined, important |-> Undefined]

Bodies ==
  { EmptyBody,
    [content |-> JsEmpty, important |-> Undefined],
    [content |-> JsTest, important |-> Undefined],
    [content |-> JsTest, important |-> JsTrue],
    [content |-> JsTest, important |-> JsFalse],
    [content |-> JsTest, important |-> JsYes] }

NoParam == <<>>

\* Clock readings, in ticks since start-up; a reading is never earlier than
\* the one before it.
Timestamps == {0, 1}

-----------------------------------------------------------------------------
(* The collection and the helpers of the handlers                          *)

\* The three seed notes, stamped with the time d of start-up.
Seed(d) ==
  << [id |-> 1, content |-> "\"HTML is easy\"",
      important |-> JsTrue, date |-> d],
     [id |-> 2, content |-> "\"Browser can execute only JavaScript\"",
      important |-> JsFalse, date |-> d],
     [id |-> 3,
      content |-> "\"GET and POST are the most important methods of HTTP protocol\"",
      important |-> JsTrue, date |-> d] >>

RECURSIVE MathMax(_)
MathMax(xs) ==
  IF Len(xs) = 1 THEN xs[1]
  ELSE LET m == MathMax(Tail(xs)) IN IF xs[1] > m THEN xs[1] ELSE m

\* Faulty variant: the increment is missing.
generateIdNoIncrement(ns) ==
  IF Len(ns) > 0 THEN MathMax([i \in DOMAIN ns |-> ns[i].id]) ELSE 0

\* Faulty variant: the id is the collection's length plus one.
generateIdByLength(ns) == Len(ns) + 1

generateId(ns) ==
  LET maxId == IF Len(ns) > 0
               THEN MathMax([i \in DOMAIN ns |-> ns[i].id])
               ELSE 0
  IN maxId + 1

\* Faulty variant: a miss falls back to the first note of the collection.
findOrFirst(ns, id) ==
  IF SelectSeq(ns, LAMBDA n : StrictEq(n.id, id)) = <<>>
  THEN SubSeq(ns, 1, 1)
  ELSE SelectSeq(ns, LAMBDA n : StrictEq(n.id, id))

\* notes.find(note => note.id === id): the matches in order; the first one is
\* the result and an empty sequence stands for undefined.
find(ns, id) == SelectSeq(ns, LAMBDA n : StrictEq(n.id, id))

\* Faulty variant: the new note is put in front.
concatInFront(ns, note) == <<note>> \o ns

concat(ns, note) == ns \o <<note>>

\* Faulty variant: important is taken with ||, so an explicit false is ignored.
updatedNoteWithOr(note, body) ==
  [note EXCEPT !.important = Or(body.important, note.important)]

updatedNote(note, body) ==
  [note EXCEPT !.important = IF body.important # Undefined
                             THEN body.important
                             ELSE note.important]

\* notes.map(n => n.id === id ? updatedNote : n)
replace(ns, id, upd) ==
  [i \in DOMAIN ns |-> IF StrictEq(ns[i].id, id) THEN upd ELSE ns[i]]

\* Faulty variant: removal by index, where a miss (index -1) removes the last note.
filterBySplice(ns, id) ==
  IF \E i \in DOMAIN ns : StrictEq(ns[i].id, id)
  THEN SelectSeq(ns, LAMBDA n : ~StrictEq(n.id, id))
  ELSE SubSeq(ns, 1, Len(ns) - 1)

\* Faulty variant: the id is compared without conversion, so every note is kept.
filterKeepsAll(ns, id) == ns

\* notes.filter(note => note.id !== id)
filter(ns, id) == SelectSeq(ns, LAMBDA n : ~StrictEq(n.id, id))

NotFound == [status |-> 404, body |-> [error |-> "Note not found"]]

ContentRequired == [status |-> 400, body |-> [error |-> "Content is required"]]

-----------------------------------------------------------------------------
(* Start-up and the handlers                                               *)

Init ==
  /\ notes = Seed(0)
  /\ now = 0
  /\ req = [method |-> "NONE", param |-> NoParam, body |-> EmptyBody]
  /\ res = [status |-> 0, body |-> <<>>]
  /\ before = notes
  /\ served = 0

\* GET /api/notes
GetAll ==
  /\ served < MaxRequests
  /\ served' = served + 1
  /\ req' = [method |-> "GET", param |-> NoParam, body |-> EmptyBody]
  /\ res' = [status |-> 200, body |-> notes]
  /\ before' = notes
  /\ UNCHANGED <<notes, now>>

\* GET /api/notes/:id
GetOne ==
  \E p \in Params :
    LET id == Number(p)
        note == find(notes, id)
    IN /\ served < MaxRequests
       /\ served' = served + 1
       /\ req' = [method |-> "GET", param |-> p, body |-> EmptyBody]
       /\ res' = IF note # <<>>
                 THEN [status |-> 200, body |-> note[1]]
                 ELSE NotFound
       /\ before' = notes
       /\ UNCHANGED <<notes, now>>

\* POST /api/notes
Create ==
  \E body \in Bodies, t \in {x \in Timestamps : x >= now} :
    /\ served < MaxRequests
    /\ served' = served + 1
    /\ req' = [method |-> "POST", param |-> NoParam, body |-> body]
    /\ before' = notes
    /\ IF ~Truthy(body.content)
       THEN /\ res' = ContentRequired
            /\ UNCHANGED <<notes, now>>
       ELSE LET note == [id |-> generateId(notes),
                         content |-> body.content,
                         important |-> Or(body.important, JsFalse),
                         date |-> t]
            IN /\ notes' = concat(notes, note)
               /\ res' = [status |-> 201, body |-> note]
               /\ now' = t

\* PUT /api/notes/:id
Update ==
  \E p \in Params, body \in Bodies :
    LET id == Number(p)
        note == find(notes, id)
    IN /\ served < MaxRequests
       /\ served' = served + 1
       /\ req' = [method |-> "PUT", param |-> p, body |-> body]
       /\ before' = notes
       /\ IF note = <<>>
          THEN /\ res' = NotFound
               /\ UNCHANGED <<notes, now>>
          ELSE /\ notes' = replace(notes, id, updatedNote(note[1], body))
               /\ res' = [status |-> 200, body |-> updatedNote(note[1], body)]
               /\ UNCHANGED now

\* DELETE /api/notes/:id
Delete ==
  \E p \in Params :
    LET id == Number(p)
    IN /\ served < MaxRequests
       /\ served' = served + 1
       /\ req' = [method |-> "DELETE", param |-> p, body |-> EmptyBody]
       /\ notes' = filter(notes, id)
       /\ res' = [status |-> 204, body |-> <<>>]
       /\ before' = notes
       /\ UNCHANGED now

Next ==
  \/ GetAll
  \/ GetOne
  \/ Create
  \/ Update
  \/ Delete

Spec == Init /\ [][Next]_vars

-----------------------------------------------------------------------------
(* Vocabulary of the properties                                            *)

Ids(ns) == {ns[i].id : i \in DOMAIN ns}

\* The id a path segment denotes is carried by a note of ns.
Present(ns, p) == \E i \in DOMAIN ns : StrictEq(ns[i].id, Number(p))

IsBoolean(v) == v \in {JsTrue, JsFalse}

Created == req.method = "POST" /\ res.status = 201

Updated == req.method = "PUT" /\ res.status = 200

Deleted == req.method = "DELETE"

-----------------------------------------------------------------------------
(* Properties                                                              *)

\* C1: no two notes present in the collection at the same time have the same
\* id, and the id a successful create returns is carried by exactly one note
\* of the collection right after that create.
C1_UniqueIds ==
  /\ \A i, j \in DOMAIN notes : notes[i].id = notes[j].id => i = j
  /\ Created => Cardinality({i \in DOMAIN notes : notes[i].id = res.body.id}) = 1

C1_Witness ==
  /\ Created
  /\ Len(notes) = 3
  /\ res.body.id = 3
  /\ notes[3] = res.body

\* C2 (as stated): a successful create assigns max(ids in the collection)
\* + 1, or 1 when the collection is empty, and stores the note under that id;
\* when the note with the highest id has just been deleted, the create that
\* follows directly assigns the freed id again.
C2_FreedIdAlwaysReused ==
  /\ [](Created =>
          /\ \/ before = <<>> /\ res.body.id = 1
             \/ /\ res.body.id - 1 \in Ids(before)
                /\ \A n \in Ids(before) : n < res.body.id
          /\ \E i \in DOMAIN notes : notes[i] = res.body)
  /\ [][(/\ Deleted
         /\ Present(before, req.param)
         /\ \A n \in Ids(before) : n <= Number(req.param).n
         /\ req'.method = "POST"
         /\ res'.status = 201)
        => res'.body.id = Number(req.param).n]_vars

\* C2 (amended): a successful create assigns max(ids in the collection) + 1,
\* or 1 when the collection is empty, and stores the note under that id; when
\* the note with the highest id m has just been deleted, the create that
\* follows directly assigns an id of at most m, and assigns m itself exactly
\* when m = 1 or a note with id m - 1 is still present.
C2_MaxPlusOne ==
  /\ [](Created =>
          /\ \/ before = <<>> /\ res.body.id = 1
             \/ /\ res.body.id - 1 \in Ids(before)
                /\ \A n \in Ids(before) : n < res.body.id
          /\ notes # <<>>
          /\ notes[Len(notes)] = res.body)
  /\ [][(/\ Deleted
         /\ Present(before, req.param)
         /\ \A n \in Ids(before) : n <= Number(req.param).n
         /\ req'.method = "POST"
         /\ res'.status = 201)
        => /\ res'.body.id <= Number(req.param).n
           /\ res'.body.id = Number(req.param).n
                <=> (Number(req.param).n = 1
                       \/ Number(req.param).n - 1 \in Ids(before))]_vars

C2_Witness ==
  /\ Created
  /\ served = 2
  /\ res.body.id = 3
  /\ Ids(before) = {1, 2}

\* C3: a create whose content is absent or falsy is answered 400
\* {error: 'Content is required'} and leaves the collection as it was.
C3_RejectedCreate ==
  (req.method = "POST" /\ req.body.content \in {Undefined, JsEmpty})
    => /\ res.status = 400
       /\ res.body = [error |-> "Content is required"]
       /\ notes = before

C3_Witness ==
  /\ req.method = "POST"
  /\ req.body.content = JsEmpty
  /\ res.status = 400
  /\ served > 1
  /\ notes # Seed(0)

\* C4: an update whose id matches no note of the collection is answered 404
\* {error: 'Note not found'}, whatever the body, and leaves the collection as
\* it was.
C4_UpdateMissing ==
  (req.method = "PUT" /\ \A i \in DOMAIN before : ~StrictEq(before[i].id, Number(req.param)))
    => /\ res.status = 404
       /\ res.body = [error |-> "Note not found"]
       /\ notes = before

C4_Witness ==
  /\ req.method = "PUT"
  /\ req.body.important = JsTrue
  /\ Number(req.param) = [nan |-> FALSE, n |-> 2]
  /\ res.status = 404
  /\ notes # <<>>

\* C5: a successful update stores and returns the previous note with the same
\* id, content and date; important is the body's value when the body gives
\* one (an explicit false included) and the previous value otherwise; the
\* note keeps its position and every other note is unchanged.
C5_UpdateFrame ==
  Updated =>
    /\ Len(notes) = Len(before)
    /\ \E i \in DOMAIN before :
         /\ StrictEq(before[i].id, Number(req.param))
         /\ notes[i] = res.body
         /\ res.body.id = before[i].id
         /\ res.body.content = before[i].content
         /\ res.body.date = before[i].date
         /\ req.body.important # Undefined
              => res.body.important = req.body.important
         /\ req.body.important = Undefined
              => res.body.important = before[i].important
         /\ \A j \in DOMAIN before : j # i => notes[j] = before[j]

C5_Witness ==
  /\ Updated
  /\ req.body.important = JsFalse
  /\ \E i \in DOMAIN before :
       /\ before[i].important = JsTrue
       /\ notes[i].important = JsFalse
       /\ i > 1

\* C6: the important field of every note in the collection is a boolean, and
\* a note created by a request that omits important has important = false.
C6_ImportantIsBoolean ==
  /\ \A i \in DOMAIN notes : IsBoolean(notes[i].important)
  /\ (Created /\ req.body.important = Undefined)
       => res.body.important = JsFalse

\* C7: a delete returns 204 whether or not the id is present; deleting an id
\* that is not present leaves the collection as it was; a second delete of
\* the same id directly after the first returns 204 and changes nothing.
C7_DeleteIdempotent ==
  /\ [](Deleted =>
          /\ res.status = 204
          /\ ~Present(before, req.param) => notes = before)
  /\ [][(Deleted /\ req'.method = "DELETE" /\ Number(req'.param) = Number(req.param))
        => (res'.status = 204 /\ notes' = notes)]_vars

C7_Witness ==
  /\ Deleted
  /\ res.status = 204
  /\ Number(req.param) = [nan |-> FALSE, n |-> 2]
  /\ 2 \notin Ids(before)
  /\ notes = before
  /\ served = 2

\* C8: once a note that was present has been deleted, a get of the same id
\* that follows directly is answered 404 {error: 'Note not found'}, and a
\* list that follows directly does not contain a note with that id.
C8_DeletedIsGone ==
  [][(Deleted /\ Present(before, req.param) /\ req'.method = "GET")
     => /\ (req'.param # NoParam /\ Number(req'.param) = Number(req.param))
             => (/\ res'.status = 404
                 /\ res'.body = [error |-> "Note not found"])
        /\ req'.param = NoParam
             => (/\ res'.status = 200
                 /\ \A k \in DOMAIN res'.body :
                      ~StrictEq(res'.body[k].id, Number(req.param)))]_vars

C8_Witness ==
  /\ req.method = "GET"
  /\ req.param = <<"0", "1">>
  /\ res.status = 404
  /\ served = 2
  /\ Ids(notes) = {2, 3}

\* C9: a create appends the new note after all notes already present; no
\* request changes the relative order of the notes that remain; an update
\* keeps the sequence of ids, and a delete keeps every note it does not
\* remove as it was.
C9_InsertionOrder ==
  /\ Created =>
       /\ Len(notes) = Len(before) + 1
       /\ \A i \in DOMAIN before : notes[i] = before[i]
       /\ notes[Len(notes)] = res.body
  /\ \A i \in DOMAIN before : \A k \in DOMAIN notes :
       notes[k].id = before[i].id
         => \A j \in DOMAIN before : \A l \in DOMAIN notes :
              (i < j /\ notes[l].id = before[j].id) => k < l
  /\ Updated =>
       /\ Len(notes) = Len(before)
       /\ \A i \in DOMAIN before : notes[i].id = before[i].id
  /\ Deleted =>
       /\ \A k \in DOMAIN notes : \E i \in DOMAIN before : notes[k] = before[i]
       /\ \A i \in DOMAIN before :
            ~StrictEq(before[i].id, Number(req.param))
              => \E k \in DOMAIN notes : notes[k] = before[i]

C9_Witness ==
  /\ Created
  /\ Len(before) = 2
  /\ Ids(before) = {1, 3}
  /\ notes[1].id = 1
  /\ notes[2].id = 3
  /\ notes[3].id = 4

\* C10: a successful create followed directly by a delete of the id it
\* returned gives back the collection as it was before the create; from the
\* initial state the create returns id 4 and the delete leaves exactly the
\* three seed notes in their original order.
C10_CreateDeleteRoundTrip ==
  /\ []((Created /\ served = 1) => res.body.id = 4)
  /\ [][(Created /\ req'.method = "DELETE" /\ StrictEq(res.body.id, Number(req'.param)))
        => (/\ res'.status = 204
            /\ notes' = before
            /\ served = 1 => notes' = Seed(0))]_vars

C10_Witness ==
  /\ Deleted
  /\ req.param = <<"4">>
  /\ served = 2
  /\ Len(before) = 4
  /\ notes = Seed(0)

====
